---- MODULE Spec2Model ----
(***************************************************************************)
(* State-machine model of the CodeMap server's event ingestion: the agent  *)
(* session registry (registerAgent, the stale sweep, persistence), the     *)
(* ActivityStore file graph, and the viewer's path resolver.               *)
(*                                                                         *)
(* Strings the code formats, parses or pattern-matches are sequences of    *)
(* one-character strings, so that formatting and parsing are computed and  *)
(* not assumed.  Agent ids are short tokens whose text is IdText(token).   *)
(* Times are milliseconds.  Payload fields that no handler ever reads back *)
(* (toolInput, model, lastDuration, skillCommand, mcpTool, statusTimestamp *)
(* and the statistics counters) are not tracked.                           *)
(***************************************************************************)
EXTENDS Integers, Sequences, FiniteSets, TLC

VARIABLES
    agentStates,            \* Map<agentId, AgentThinkingState>
    lastAgentCreationTime,  \* time of the last successful creation, 0 at start
    activeSkills,           \* Set<string>
    activeMcpServers,       \* Set<string>
    stateFile,              \* contents of .codemap-state.json, or NoFile
    now,                    \* Date.now()
    ticks,                  \* number of clock advances so far
    nodes,                  \* ActivityStore.nodes: Map<path, GraphNode>
    knownFileIds,           \* viewer: the list of known file ids
    filePath,               \* viewer: the path being resolved
    matchResult,            \* viewer: result of the last findMatchingFileId
    clients,                \* WebSocketManager.clients: the set of tracked sockets
    sockets,                \* every socket accepted so far, tracked or not
    thinkingAgentsRef,      \* viewer: the ids of the last roster received
    thinkingDirty,          \* viewer: thinkingVersionRef differs from lastThinkingVersionRef
    agentCharactersRef,     \* viewer: Map<agentId, AgentCharacter> of the room
    cache,                  \* git-activity: the cache entry of the project root, or NoEntry
    repo,                   \* the number of commits in the repository
    calls,                  \* the calls of getHotFolders that await their git log
    served                  \* the result of the last getHotFolders that returned

regVars == <<agentStates, lastAgentCreationTime, activeSkills, activeMcpServers, stateFile>>
clockVars == <<now, ticks>>
graphVars == <<nodes>>
roomVars == <<thinkingAgentsRef, thinkingDirty, agentCharactersRef>>
viewVars == <<knownFileIds, filePath, matchResult, roomVars>>
wsVars == <<clients, sockets>>
gitVars == <<cache, repo, calls, served>>
vars == <<regVars, clockVars, graphVars, viewVars, gitVars, wsVars>>

(***************************************************************************)
(* Bounds of the model.                                                    *)
(***************************************************************************)
MaxTicks == 3
StartTime == 1000000
Background == 9

(***************************************************************************)
(* Program constants.                                                      *)
(***************************************************************************)
AGENT_TIMEOUT_MS == 5 * 60 * 1000
MAX_AGENTS == 10
AGENT_CREATION_COOLDOWN_MS == 500

None == "none"

(***************************************************************************)
(* Text: characters, digits, decimal formatting and parsing.               *)
(***************************************************************************)
DigitChars == <<"0", "1", "2", "3", "4", "5", "6", "7", "8", "9">>

IsDigit(c) == \E i \in 1..10 : DigitChars[i] = c

DigitValue(c) == (CHOOSE i \in 1..10 : DigitChars[i] = c) - 1

HexChars == {DigitChars[i] : i \in 1..10}
            \cup {"a", "b", "c", "d", "e", "f", "A", "B", "C", "D", "E", "F"}

RECURSIVE NumberToString(_)
NumberToString(n) ==
    IF n < 10 THEN <<DigitChars[n + 1]>>
    ELSE NumberToString(n \div 10) \o <<DigitChars[(n % 10) + 1]>>

RECURSIVE ParseInt(_)
ParseInt(s) ==
    IF s = <<>> THEN 0
    ELSE 10 * ParseInt(SubSeq(s, 1, Len(s) - 1)) + DigitValue(s[Len(s)])

\* the match of /(\d+)$/ : the longest all-digit suffix, <<>> when there is none
RECURSIVE TrailingDigits(_)
TrailingDigits(s) ==
    IF s = <<>> \/ ~IsDigit(s[Len(s)]) THEN <<>>
    ELSE TrailingDigits(SubSeq(s, 1, Len(s) - 1)) \o <<s[Len(s)]>>

LowerLetters == <<"a", "b", "c", "d", "e", "f", "g", "h", "i", "j", "k",
    "l", "m", "n", "o", "p", "q", "r", "s", "t", "u", "v", "w", "x", "y",
    "z">>

UpperLetters == <<"A", "B", "C", "D", "E", "F", "G", "H", "I", "J", "K",
    "L", "M", "N", "O", "P", "Q", "R", "S", "T", "U", "V", "W", "X", "Y",
    "Z">>

UpperOf(c) ==
    IF \E i \in 1..26 : LowerLetters[i] = c
    THEN UpperLetters[CHOOSE i \in 1..26 : LowerLetters[i] = c]
    ELSE c

LowerOf(c) ==
    IF \E i \in 1..26 : UpperLetters[i] = c
    THEN LowerLetters[CHOOSE i \in 1..26 : UpperLetters[i] = c]
    ELSE c

ToLowerCase(s) == [i \in 1..Len(s) |-> LowerOf(s[i])]

Capitalize(s) == IF s = <<>> THEN s ELSE <<UpperOf(s[1])>> \o SubSeq(s, 2, Len(s))

StartsWith(s, prefix) ==
    Len(s) >= Len(prefix) /\ SubSeq(s, 1, Len(prefix)) = prefix

EndsWith(s, suffix) ==
    Len(s) >= Len(suffix) /\ SubSeq(s, Len(s) - Len(suffix) + 1, Len(s)) = suffix

Includes(s, sub) ==
    \E i \in 1..(Len(s) - Len(sub) + 1) : SubSeq(s, i, i + Len(sub) - 1) = sub

(***************************************************************************)
(* The words of the model: source labels, the specialist keywords, tool    *)
(* names, the agent names and types the hooks send, and path segments.     *)
(***************************************************************************)
Text(w) ==
    CASE w = "Claude Code" ->
           <<"C", "l", "a", "u", "d", "e", " ", "C", "o", "d", "e">>
      [] w = "Windsurf" ->
           <<"W", "i", "n", "d", "s", "u", "r", "f">>
      [] w = "Agent" ->
           <<"A", "g", "e", "n", "t">>
      [] w = "Specialist" ->
           <<"S", "p", "e", "c", "i", "a", "l", "i", "s", "t">>
      [] w = "plan" ->
           <<"p", "l", "a", "n">>
      [] w = "explore" ->
           <<"e", "x", "p", "l", "o", "r", "e">>
      [] w = "bash" ->
           <<"b", "a", "s", "h">>
      [] w = "researcher" ->
           <<"r", "e", "s", "e", "a", "r", "c", "h", "e", "r">>
      [] w = "reviewer" ->
           <<"r", "e", "v", "i", "e", "w", "e", "r">>
      [] w = "writer" ->
           <<"w", "r", "i", "t", "e", "r">>
      [] w = "analyst" ->
           <<"a", "n", "a", "l", "y", "s", "t">>
      [] w = "Read" ->
           <<"R", "e", "a", "d">>
      [] w = "Bash" ->
           <<"B", "a", "s", "h">>
      [] w = "AskUserQuestion" ->
           <<"A", "s", "k", "U", "s", "e", "r", "Q", "u", "e", "s", "t", "i", "o", "n">>
      [] w = "Plan" ->
           <<"P", "l", "a", "n">>
      [] w = "qa" ->
           <<"q", "a">>
      [] w = "bob" ->
           <<"b", "o", "b">>
      [] w = "qa2" ->
           <<"q", "a", "2">>
      [] w = "read" ->
           <<"r", "e", "a", "d">>
      [] w = "write" ->
           <<"w", "r", "i", "t", "e">>
      [] w = "edit" ->
           <<"e", "d", "i", "t">>
      [] w = "multiedit" ->
           <<"m", "u", "l", "t", "i", "e", "d", "i", "t">>
      [] w = "notebookedit" ->
           <<"n", "o", "t", "e", "b", "o", "o", "k", "e", "d", "i", "t">>
      [] w = "grep" ->
           <<"g", "r", "e", "p">>
      [] w = "glob" ->
           <<"g", "l", "o", "b">>
      [] w = "websearch" ->
           <<"w", "e", "b", "s", "e", "a", "r", "c", "h">>
      [] w = "webfetch" ->
           <<"w", "e", "b", "f", "e", "t", "c", "h">>
      [] w = "killshell" ->
           <<"k", "i", "l", "l", "s", "h", "e", "l", "l">>
      [] w = "task" ->
           <<"t", "a", "s", "k">>
      [] w = "taskoutput" ->
           <<"t", "a", "s", "k", "o", "u", "t", "p", "u", "t">>
      [] w = "skill" ->
           <<"s", "k", "i", "l", "l">>
      [] w = "home" ->
           <<"h", "o", "m", "e">>
      [] w = "proj" ->
           <<"p", "r", "o", "j">>
      [] w = "tmp" ->
           <<"t", "m", "p">>
      [] w = "src" ->
           <<"s", "r", "c">>
      [] w = "lib" ->
           <<"l", "i", "b">>
      [] w = "util" ->
           <<"u", "t", "i", "l">>
      [] w = "a.ts" ->
           <<"a", ".", "t", "s">>
      [] w = "b.ts" ->
           <<"b", ".", "t", "s">>
      [] w = "c.ts" ->
           <<"c", ".", "t", "s">>
      [] w = ".." ->
           <<".", ".">>
      [] w = "..cfg" ->
           <<".", ".", "c", "f", "g">>
      [] OTHER -> <<>>

(***************************************************************************)
(* Agent ids.  A token stands for the text the hook sent.                  *)
(***************************************************************************)
DashPositions == {9, 14, 19, 24}

Uuid(first, rest) ==
    [i \in 1..36 |-> IF i \in DashPositions THEN "-" ELSE IF i = 1 THEN first ELSE rest]

BackgroundIds == {"B1", "B2", "B3", "B4", "B5", "B6", "B7", "B8", "B9", "B10"}

BackgroundNumber(id) ==
    CASE id = "B1" -> 1 [] id = "B2" -> 2 [] id = "B3" -> 3 [] id = "B4" -> 4
      [] id = "B5" -> 5 [] id = "B6" -> 6 [] id = "B7" -> 7 [] id = "B8" -> 8
      [] id = "B9" -> 9 [] id = "B10" -> 10

IdText(id) ==
    CASE id = "A1" -> Uuid("a", "1")
      [] id = "A2" -> Uuid("A", "2")
      [] id = "A3" -> Uuid("a", "3")
      [] id = "ZERO" -> Uuid("0", "0")
      [] id = "empty" -> <<>>
      [] id = "null" -> <<"n", "u", "l", "l">>
      [] id = "undefined" -> <<"u", "n", "d", "e", "f", "i", "n", "e", "d">>
      [] id = "zeros8" -> <<"0", "0", "0", "0", "0", "0", "0", "0">>
      [] id \in BackgroundIds -> Uuid("b", DigitChars[BackgroundNumber(id)])
      [] OTHER -> <<>>

\* the viewer's looser test: at least 8 characters, all hex digits or dashes
IsValidAgentId_Loose(id) ==
    LET s == IdText(id) IN
    /\ Len(s) >= 8
    /\ \A i \in 1..Len(s) : s[i] \in HexChars \cup {"-"}

\* /^[0-9a-f]{8}-[0-9a-f]{4}-[0-9a-f]{4}-[0-9a-f]{4}-[0-9a-f]{12}$/i
IsValidAgentId(id) ==
    LET s == IdText(id) IN
    /\ Len(s) = 36
    /\ \A i \in 1..36 : IF i \in DashPositions THEN s[i] = "-" ELSE s[i] \in HexChars

\* the viewer's isValidAgentId: at least 8 characters, hex digits and dashes
\* only, and none of '00000000', 'undefined', 'null'
ViewerIsValidAgentId(id) ==
    LET s == IdText(id) IN
    /\ s # <<>>
    /\ Len(s) >= 8
    /\ \A i \in 1..Len(s) : s[i] \in HexChars \cup {"-"}
    /\ s \notin {IdText("zeros8"), IdText("undefined"), IdText("null")}

(***************************************************************************)
(* Session registry: naming, roles, registerAgent.                         *)
(***************************************************************************)
NoFile == [exists |-> FALSE]

EmptyMap == [id \in {} |-> None]

States(agents) == {agents[id] : id \in DOMAIN agents}

\* a counter in place of the gap search: one more than the sessions of the source
GetNextAgentNumber_Counting(agents, source) ==
    Cardinality({id \in DOMAIN agents : agents[id].source = source}) + 1

\* numbering that does not look at the registered sessions
GetNextAgentNumber_Blind(agents, source) == 1

GetNextAgentNumber(agents, source) ==
    LET usedNumbers ==
            {ParseInt(TrailingDigits(st.displayName)) :
                st \in {x \in States(agents) :
                            x.source = source /\ TrailingDigits(x.displayName) # <<>>}}
    IN  CHOOSE num \in 1..(Cardinality(usedNumbers) + 1) :
            /\ num \notin usedNumbers
            /\ \A m \in 1..(num - 1) : m \in usedNumbers

SpecialistTypes ==
    {Text("plan"), Text("explore"), Text("bash"), Text("researcher"),
     Text("reviewer"), Text("writer"), Text("analyst")}

DetermineAgentRole(agentType, parentAgentId, agentName) ==
    IF IdText(parentAgentId) # <<>> THEN "sub-agent"
    ELSE IF Text(agentType) # <<>> /\ ToLowerCase(Text(agentType)) \in SpecialistTypes
         THEN "specialist"
    ELSE IF Text(agentName) # <<>>
            /\ \E t \in SpecialistTypes : Includes(ToLowerCase(Text(agentName)), t)
         THEN "specialist"
    ELSE "main"

SourceName(source) ==
    IF source = "claude" THEN Text("Claude Code")
    ELSE IF source = "windsurf" THEN Text("Windsurf")
    ELSE Text("Agent")

GenerateDisplayName(source, agentNumber, agentName, agentType, agentRole) ==
    IF Text(agentName) # <<>>
    THEN Capitalize(Text(agentName)) \o <<" ">> \o NumberToString(agentNumber)
    ELSE IF Text(agentType) # <<>>
    THEN SourceName(source) \o <<" ">> \o Capitalize(Text(agentType))
            \o <<" ">> \o NumberToString(agentNumber)
    ELSE IF agentRole = "specialist"
    THEN SourceName(source) \o <<" ">> \o Text("Specialist")
            \o <<" ">> \o NumberToString(agentNumber)
    ELSE SourceName(source) \o <<" ">> \o NumberToString(agentNumber)

NewAgentState(agents, agentId, timestamp, agentSource, agentName, agentType, parentAgentId) ==
    LET agentNumber == GetNextAgentNumber(agents, agentSource)
        agentRole == DetermineAgentRole(agentType, parentAgentId, agentName)
    IN  [agentId |-> agentId,
         source |-> agentSource,
         isThinking |-> FALSE,
         lastActivity |-> timestamp,
         displayName |-> GenerateDisplayName(agentSource, agentNumber, agentName,
                                             agentType, agentRole),
         currentCommand |-> None,
         toolCategory |-> None,
         agentType |-> agentType,
         agentName |-> agentName,
         agentRole |-> agentRole,
         parentAgentId |-> parentAgentId,
         childAgentIds |-> <<>>,
         waitingForInput |-> FALSE,
         pendingToolStart |-> 0,
         status |-> None,
         skillName |-> None,
         mcpServer |-> None]

\* the new session inserted, and pushed on its parent's child list
InsertAgent(agents, st) ==
    LET withNew == (st.agentId :> st) @@ agents
        parent == st.parentAgentId
    IN  IF IdText(parent) # <<>> /\ parent \in DOMAIN withNew
        THEN [withNew EXCEPT ![parent].childAgentIds = Append(@, st.agentId)]
        ELSE withNew

Rejected(agents, last) ==
    [found |-> FALSE, created |-> FALSE, agents |-> agents, last |-> last]

\* the capacity test off by one: > in place of >=
AtCapacity_OffByOne(agents) == Cardinality(DOMAIN agents) > MAX_AGENTS

AtCapacity(agents) == Cardinality(DOMAIN agents) >= MAX_AGENTS

RateLimited(last, t) == t - last < AGENT_CREATION_COOLDOWN_MS

\* registerAgent with the capacity test ahead of the lookup of the existing session
RegisterAgent_CapacityFirst(agents, last, t, agentId, agentSource, agentName, agentType, parentAgentId) ==
    IF ~IsValidAgentId(agentId) THEN Rejected(agents, last)
    ELSE IF AtCapacity(agents) THEN Rejected(agents, last)
    ELSE IF agentId \in DOMAIN agents
    THEN [found |-> TRUE, created |-> FALSE, agents |-> agents, last |-> last]
    ELSE IF RateLimited(last, t) THEN Rejected(agents, last)
    ELSE [found |-> TRUE, created |-> TRUE,
          agents |-> InsertAgent(agents,
                        NewAgentState(agents, agentId, t, agentSource, agentName,
                                      agentType, parentAgentId)),
          last |-> t]

\* registerAgent stamping the creation time before the cooldown test
RegisterAgent_StampEarly(agents, last, t, agentId, agentSource, agentName, agentType, parentAgentId) ==
    IF ~IsValidAgentId(agentId) THEN Rejected(agents, last)
    ELSE IF agentId \in DOMAIN agents
    THEN [found |-> TRUE, created |-> FALSE, agents |-> agents, last |-> last]
    ELSE IF AtCapacity(agents) THEN Rejected(agents, last)
    ELSE IF RateLimited(last, t) THEN Rejected(agents, t)
    ELSE [found |-> TRUE, created |-> TRUE,
          agents |-> InsertAgent(agents,
                        NewAgentState(agents, agentId, t, agentSource, agentName,
                                      agentType, parentAgentId)),
          last |-> t]

\* The result of registerAgent: whether a session is returned, whether it was
\* created, and the registry and creation timestamp it leaves.  Date.now() inside
\* registerAgent is the handler's own now, passed as t.
RegisterAgent(agents, last, t, agentId, agentSource, agentName, agentType, parentAgentId) ==
    IF ~IsValidAgentId(agentId) THEN Rejected(agents, last)
    ELSE IF agentId \in DOMAIN agents
    THEN [found |-> TRUE, created |-> FALSE, agents |-> agents, last |-> last]
    ELSE IF AtCapacity(agents) THEN Rejected(agents, last)
    ELSE IF RateLimited(last, t) THEN Rejected(agents, last)
    ELSE [found |-> TRUE, created |-> TRUE,
          agents |-> InsertAgent(agents,
                        NewAgentState(agents, agentId, t, agentSource, agentName,
                                      agentType, parentAgentId)),
          last |-> t]

(***************************************************************************)
(* ActivityStore: the file graph.  A path is the sequence of its segments. *)
(***************************************************************************)
ProjectRoot == <<"home", "proj">>

Under(rel) == ProjectRoot \o rel

RECURSIVE CommonPrefixLength(_, _)
CommonPrefixLength(p, q) ==
    IF p = <<>> \/ q = <<>> \/ p[1] # q[1] THEN 0
    ELSE 1 + CommonPrefixLength(Tail(p), Tail(q))

\* path.relative(from, to) of two absolute normalised paths, as segments
PathRelative(from, to) ==
    LET c == CommonPrefixLength(from, to)
    IN  [i \in 1..(Len(from) - c) |-> ".."] \o SubSeq(to, c + 1, Len(to))

\* relativePath.startsWith('..'), a test on the characters of the relative path
OutsideProject(rel) == rel # <<>> /\ StartsWith(Text(rel[1]), <<".", ".">>)

\* ''.split(path.sep) is [''], and path.join(root, '') is root
SplitPath(rel) == IF rel = <<>> THEN <<"">> ELSE rel

PathJoin(base, parts) == base \o SelectSeq(parts, LAMBDA x : x # "")

Dirname(p) == IF p = <<>> THEN p ELSE SubSeq(p, 1, Len(p) - 1)

Basename(p) == IF p = <<>> THEN "" ELSE p[Len(p)]

NewNode(id, name, isFolder, depth) ==
    [id |-> id, name |-> name, isFolder |-> isFolder, depth |-> depth,
     activityCount |-> [reads |-> 0, writes |-> 0, searches |-> 0],
     activeOperation |-> None,
     lastActivity |-> [type |-> None, timestamp |-> 0]]

RootNode == NewNode(ProjectRoot, Basename(ProjectRoot), TRUE, 0 - 1)

InitialNodes == (ProjectRoot :> RootNode)

IsStartEvent(type) == type \in {"read-start", "write-start", "search-start"}

IsSearchEvent(type) == type \in {"search-start", "search-end"}

BaseType(type) == IF type \in {"read-start", "read-end"} THEN "read" ELSE "write"

\* the walk creating only the file node, not its missing ancestor folders
WithPathNodes_LeafOnly(ns, parts) ==
    LET leaf == PathJoin(ProjectRoot, parts)
    IN  IF leaf \in DOMAIN ns THEN ns
        ELSE (leaf :> NewNode(leaf, parts[Len(parts)], FALSE, Len(parts) - 1)) @@ ns

\* the nodes the walk over the segments adds: every missing prefix of the path
WithPathNodes(ns, parts) ==
    LET n == Len(parts)
        at(i) == PathJoin(ProjectRoot, SubSeq(parts, 1, i))
        missing == {at(i) : i \in 1..n} \ DOMAIN ns
        first(k) == CHOOSE i \in 1..n : at(i) = k /\ \A j \in 1..(i - 1) : at(j) # k
        added == [k \in missing |->
                    NewNode(k, parts[first(k)], first(k) # n, first(k) - 1)]
    IN  added @@ ns

\* the leaf's update on a start or an end event
TouchLeaf(node, type, timestamp) ==
    IF IsStartEvent(type)
    THEN [node EXCEPT !.activeOperation = BaseType(type),
                      !.lastActivity = [type |-> BaseType(type), timestamp |-> timestamp]]
    ELSE IF BaseType(type) = "read"
    THEN [node EXCEPT !.activeOperation = None, !.activityCount.reads = @ + 1]
    ELSE [node EXCEPT !.activeOperation = None, !.activityCount.writes = @ + 1]

\* dirname(leaf) and up, while the path starts with the project root
AncestorsOf(leaf) ==
    {SubSeq(leaf, 1, k) : k \in Len(ProjectRoot)..(Len(leaf) - 1)}

\* ActivityStore.addActivity: the node map after the event
AddActivity(ns, ev) ==
    IF IsSearchEvent(ev.type) THEN ns
    ELSE LET rel == PathRelative(ProjectRoot, ev.filePath) IN
    IF OutsideProject(rel) THEN ns
    ELSE
        LET parts == SplitPath(rel)
            created == WithPathNodes(ns, parts)
            leaf == PathJoin(ProjectRoot, parts)
            ancestors == AncestorsOf(leaf) \cap DOMAIN created
        IN  [k \in DOMAIN created |->
                IF k = leaf THEN TouchLeaf(created[k], ev.type, ev.timestamp)
                ELSE IF k \in ancestors
                THEN [created[k] EXCEPT !.activeOperation =
                        IF IsStartEvent(ev.type) THEN BaseType(ev.type) ELSE None]
                ELSE created[k]]

\* ActivityStore.handleFileAdd
HandleFileAdd(ns, path, isFolder) ==
    LET rel == PathRelative(ProjectRoot, path) IN
    IF OutsideProject(rel) THEN ns
    ELSE
        LET parts == SplitPath(rel)
            depth == Len(parts) - 1
            parents == {PathJoin(ProjectRoot, SubSeq(parts, 1, i)) : i \in 1..(Len(parts) - 1)}
            missing == parents \ DOMAIN ns
            withParents ==
                [k \in missing |->
                    NewNode(k, Basename(k), TRUE, Len(k) - Len(ProjectRoot) - 1)] @@ ns
        IN  IF path \in DOMAIN withParents THEN withParents
            ELSE (path :> NewNode(path, Basename(path), isFolder, depth)) @@ withParents

\* ActivityStore.handleFileRemove: the node and everything below it
HandleFileRemove(ns, path) ==
    LET rel == PathRelative(ProjectRoot, path) IN
    IF OutsideProject(rel) THEN ns
    ELSE [k \in {q \in DOMAIN ns : ~(q = path \/ (Len(q) > Len(path) /\ StartsWith(q, path)))}
            |-> ns[k]]

(***************************************************************************)
(* Viewer: findMatchingFileId.  File ids are strings of characters.        *)
(***************************************************************************)
Undefined == <<>>

\* Array.prototype.includes
ListIncludes(list, x) == \E i \in 1..Len(list) : list[i] = x

\* the test turned round: the id is a tail of the path
MatchesTail_Reversed(id, tail) == EndsWith(tail, <<"/">> \o id) \/ id = tail

\* id.endsWith('/' + tail) || id === tail
MatchesTail(id, tail) == EndsWith(id, <<"/">> \o tail) \/ id = tail

\* the first known id matching the tail, in list order, or undefined: the loop
\* of the suffix step and the Array.prototype.find of the file-name step
FirstMatch(known, tail) ==
    IF \E i \in 1..Len(known) : MatchesTail(known[i], tail)
    THEN known[CHOOSE i \in 1..Len(known) :
                /\ MatchesTail(known[i], tail)
                /\ \A j \in 1..(i - 1) : ~MatchesTail(known[j], tail)]
    ELSE Undefined

\* filePath.split('/').pop() || '' : the characters after the last slash
RECURSIVE ExtractFilename(_)
ExtractFilename(path) ==
    IF path = <<>> \/ path[Len(path)] = "/" THEN <<>>
    ELSE ExtractFilename(SubSeq(path, 1, Len(path) - 1)) \o <<path[Len(path)]>>

\* the resolver without its exact-match step: suffix, then file name
FindMatchingFileId_NoExactStep(path, known) ==
    IF path = <<>> THEN Undefined
    ELSE LET suffixMatch == FirstMatch(known, path)
         IN  IF suffixMatch # Undefined THEN suffixMatch
             ELSE LET fileName == ExtractFilename(path)
                  IN  IF fileName = <<>> THEN Undefined
                      ELSE FirstMatch(known, fileName)

FindMatchingFileId(path, known) ==
    IF path = <<>> THEN Undefined
    ELSE IF ListIncludes(known, path) THEN path
    ELSE LET suffixMatch == FirstMatch(known, path)
         IN  IF suffixMatch # Undefined THEN suffixMatch
             ELSE LET fileName == ExtractFilename(path)
                  IN  IF fileName = <<>> THEN Undefined
                      ELSE FirstMatch(known, fileName)

(***************************************************************************)
(* The handlers' updates of one session.                                   *)
(***************************************************************************)
SourceOrUnknown(source) == IF source = None THEN "unknown" ELSE source

CategorizeTool(toolName, mcpServer) ==
    LET toolLower == ToLowerCase(Text(toolName)) IN
    IF mcpServer # None THEN "mcp"
    ELSE IF toolLower \in {Text("read"), Text("write"), Text("edit"),
                           Text("multiedit"), Text("notebookedit")} THEN "file"
    ELSE IF toolLower \in {Text("grep"), Text("glob"), Text("websearch"),
                           Text("webfetch")} THEN "search"
    ELSE IF toolLower \in {Text("bash"), Text("killshell")} THEN "execute"
    ELSE IF toolLower \in {Text("task"), Text("taskoutput")} THEN "task"
    ELSE IF toolLower = Text("skill") THEN "skill"
    ELSE "other"

\* POST /api/activity: the update of the session the event names
ActivityUpdate(st, ev, t) ==
    LET s1 == [st EXCEPT !.lastActivity = t]
        s2 == IF IsStartEvent(ev.type)
              THEN [s1 EXCEPT
                      !.currentCommand =
                          IF ev.type = "read-start" THEN "Read"
                          ELSE IF ev.type = "write-start" THEN "Write" ELSE "Grep",
                      !.toolCategory = IF IsSearchEvent(ev.type) THEN "search" ELSE "file",
                      !.isThinking = TRUE]
              ELSE [s1 EXCEPT !.isThinking = FALSE]
        s3 == IF ev.skillName # None THEN [s2 EXCEPT !.skillName = ev.skillName] ELSE s2
    IN  IF ev.mcpServer # None THEN [s3 EXCEPT !.mcpServer = ev.mcpServer] ELSE s3

\* a regeneration that starts the numbering again
CurrentNumber_Reset(displayName) == 1

\* the ordinal a display name is regenerated with: its trailing digits, or 1
CurrentNumber(displayName) ==
    IF TrailingDigits(displayName) = <<>> THEN 1
    ELSE ParseInt(TrailingDigits(displayName))

\* POST /api/thinking, agent-stop
StopUpdate_Touching(st, ev) ==
    IF ev.status # None
    THEN [st EXCEPT !.status = ev.status, !.isThinking = FALSE, !.lastActivity = now]
    ELSE [st EXCEPT !.lastActivity = now]

StopUpdate(st, ev) ==
    IF ev.status # None
    THEN [st EXCEPT !.status = ev.status, !.isThinking = FALSE]
    ELSE st

\* state.isThinking = type === 'thinking-start'; state.lastActivity = now
Touched(st, ev, t) ==
    [st EXCEPT !.isThinking = (ev.type = "thinking-start"), !.lastActivity = t]

\* if (toolName) : the current command and its category
WithTool(st, ev) ==
    IF Text(ev.toolName) # <<>>
    THEN [st EXCEPT !.currentCommand = ev.toolName,
                    !.toolCategory = CategorizeTool(ev.toolName, ev.mcpServer)]
    ELSE st

\* if (agentName && !state.agentName) : the name, and the display name rebuilt
WithAgentName(st, ev) ==
    IF Text(ev.agentName) # <<>> /\ Text(st.agentName) = <<>>
    THEN [st EXCEPT
            !.agentName = ev.agentName,
            !.displayName =
                GenerateDisplayName(st.source, CurrentNumber(st.displayName),
                                    ev.agentName, st.agentType, st.agentRole)]
    ELSE st

\* the role and the display name of a session given a new agent type
Retyped(st, agentType, role) ==
    [st EXCEPT
        !.agentType = agentType,
        !.agentRole = role,
        !.displayName =
            GenerateDisplayName(st.source, CurrentNumber(st.displayName),
                                st.agentName, agentType, role)]

\* if (agentType && agentType !== state.agentType)
WithAgentType(st, ev) ==
    IF Text(ev.agentType) # <<>> /\ ev.agentType # st.agentType
    THEN Retyped(st, ev.agentType,
                 DetermineAgentRole(ev.agentType, st.parentAgentId, st.agentName))
    ELSE st

\* if (skillName), if (mcpServer) : the session's tags
WithTags(st, ev) ==
    [st EXCEPT
        !.skillName = IF ev.skillName # None THEN ev.skillName ELSE @,
        !.mcpServer = IF ev.mcpServer # None THEN ev.mcpServer ELSE @]

\* if (state.status && type === 'thinking-end')
WithStatusCleared(st, ev) ==
    IF st.status # None /\ ev.type = "thinking-end"
    THEN [st EXCEPT !.status = None] ELSE st

\* permission prompt detection
WithPending(st, ev, t) ==
    IF ev.type = "thinking-end"
    THEN [st EXCEPT !.pendingToolStart = t,
                    !.waitingForInput =
                        IF ev.toolName = "AskUserQuestion" THEN TRUE ELSE @]
    ELSE [st EXCEPT !.pendingToolStart = 0, !.waitingForInput = FALSE]

\* POST /api/thinking, thinking-start and thinking-end
ThinkingUpdate(st, ev, t) ==
    WithPending(
        WithStatusCleared(
            WithTags(
                WithAgentType(
                    WithAgentName(WithTool(Touched(st, ev, t), ev), ev), ev), ev), ev),
        ev, t)

(***************************************************************************)
(* WebSocketManager.  A socket is a record of its readyState, its isAlive  *)
(* flag, the number of pings sent to it since its last pong, whether       *)
(* terminate() was called on it, and its outbox: the messages written to   *)
(* it by the last handler that can publish.                                *)
(***************************************************************************)
OPEN == "OPEN"

CLOSING == "CLOSING"

CLOSED == "CLOSED"

\* wss.on('connection'): ws.isAlive = true
NewClient ==
    [readyState |-> OPEN, isAlive |-> TRUE, pending |-> 0, terminated |-> FALSE,
     outbox |-> <<>>]

\* a handler starts: nothing written to any socket yet
Flushed(socks) == [ws \in DOMAIN socks |-> [socks[ws] EXCEPT !.outbox = <<>>]]

\* broadcast sending to the CLOSING sockets as well
Sent_AlsoClosing(socks, cl, type) ==
    [ws \in DOMAIN socks |->
        IF ws \in cl /\ socks[ws].readyState \in {OPEN, CLOSING}
        THEN [socks[ws] EXCEPT !.outbox = Append(@, type)]
        ELSE socks[ws]]

\* broadcast, first loop: the message is sent to each tracked socket that is OPEN
Sent(socks, cl, type) ==
    [ws \in DOMAIN socks |->
        IF ws \in cl /\ socks[ws].readyState = OPEN
        THEN [socks[ws] EXCEPT !.outbox = Append(@, type)]
        ELSE socks[ws]]

\* broadcast, second loop: the CLOSED and CLOSING sockets are deleted from the set
Kept(socks, cl) == {ws \in cl : socks[ws].readyState \notin {CLOSED, CLOSING}}

\* a heartbeat that never gives up on a socket
IsDead_Never(sock) == FALSE

\* a heartbeat that drops a socket only after two unanswered pings
IsDead_TwoStrikes(sock) == sock.pending >= 2

\* if (ws.isAlive === false)
IsDead(sock) == sock.isAlive = FALSE

\* the ping interval, per tracked socket: a dead one is terminated, any other is
\* marked not alive and pinged
Pinged(socks, cl) ==
    [ws \in DOMAIN socks |->
        IF ws \notin cl THEN socks[ws]
        ELSE IF IsDead(socks[ws])
        THEN [socks[ws] EXCEPT !.terminated = TRUE, !.readyState = CLOSING]
        ELSE [socks[ws] EXCEPT !.isAlive = FALSE, !.pending = @ + 1]]

\* the ping interval: the dead sockets are deleted from the set
Alive(socks, cl) == {ws \in cl : ~IsDead(socks[ws])}

(***************************************************************************)
(* Actions of the server.                                                  *)
(***************************************************************************)
MaxCount == 2

Counts(ns) ==
    {ns[k].activityCount.reads : k \in DOMAIN ns}
        \cup {ns[k].activityCount.writes : k \in DOMAIN ns}

\* the clock advances by d milliseconds
Tick(d) ==
    /\ ticks < MaxTicks
    /\ now' = now + d
    /\ ticks' = ticks + 1
    /\ UNCHANGED <<regVars, graphVars, viewVars, gitVars, wsVars>>

\* POST /api/activity
PostActivity(ev) ==
    LET hasId == IdText(ev.agentId) # <<>>
        reg == RegisterAgent(agentStates, lastAgentCreationTime, now, ev.agentId,
                             SourceOrUnknown(ev.source), None, None, None)
        applies == hasId /\ reg.found
        graph == AddActivity(nodes, ev)
    IN  /\ \A c \in Counts(graph) : c <= MaxCount
        /\ agentStates' =
              IF applies
              THEN [reg.agents EXCEPT ![ev.agentId] = ActivityUpdate(@, ev, now)]
              ELSE agentStates
        /\ lastAgentCreationTime' = IF hasId THEN reg.last ELSE lastAgentCreationTime
        /\ activeSkills' =
              IF applies /\ ev.skillName # None
              THEN activeSkills \cup {ev.skillName} ELSE activeSkills
        /\ activeMcpServers' =
              IF applies /\ ev.mcpServer # None
              THEN activeMcpServers \cup {ev.mcpServer} ELSE activeMcpServers
        /\ nodes' = graph
        /\ sockets' =
              Sent(Sent(IF applies THEN Sent(Flushed(sockets), clients, "thinking")
                        ELSE Flushed(sockets),
                        clients, "activity"),
                   clients, "graph")
        /\ clients' = Kept(sockets, clients)
        /\ UNCHANGED <<stateFile, clockVars, viewVars, gitVars>>

\* POST /api/thinking
PostThinking(ev) ==
    LET reg == RegisterAgent(agentStates, lastAgentCreationTime, now, ev.agentId,
                             SourceOrUnknown(ev.source), ev.agentName, ev.agentType,
                             ev.parentAgentId)
        stop == ev.type = "agent-stop"
    IN  /\ agentStates' =
              IF ~reg.found THEN agentStates
              ELSE IF stop
              THEN [reg.agents EXCEPT ![ev.agentId] = StopUpdate(@, ev)]
              ELSE [reg.agents EXCEPT ![ev.agentId] = ThinkingUpdate(@, ev, now)]
        /\ lastAgentCreationTime' = reg.last
        /\ activeSkills' =
              IF reg.found /\ ~stop /\ ev.skillName # None
              THEN activeSkills \cup {ev.skillName} ELSE activeSkills
        /\ activeMcpServers' =
              IF reg.found /\ ~stop /\ ev.mcpServer # None
              THEN activeMcpServers \cup {ev.mcpServer} ELSE activeMcpServers
        /\ sockets' =
              IF reg.found THEN Sent(Flushed(sockets), clients, "thinking")
              ELSE Flushed(sockets)
        /\ clients' = IF reg.found THEN Kept(sockets, clients) ELSE clients
        /\ UNCHANGED <<stateFile, clockVars, graphVars, viewVars, gitVars>>

\* now - state.lastActivity >= AGENT_TIMEOUT_MS : evicting at the boundary too
IsStale_Inclusive(st, t) == t - st.lastActivity >= AGENT_TIMEOUT_MS

IsStale(st, t) == t - st.lastActivity > AGENT_TIMEOUT_MS

\* The stale sweep.  The Map is walked in insertion order, deleting as it goes;
\* the outcome does not depend on the order: a survivor loses the evicted
\* children from its child list, and a tag of an evicted session goes when no
\* survivor carries it.
SweepAt(t) ==
    LET stale == {id \in DOMAIN agentStates : IsStale(agentStates[id], t)}
        survivors == DOMAIN agentStates \ stale
        evictedChild(p, c) == c \in stale /\ agentStates[c].parentAgentId = p
        skillsGone == {agentStates[id].skillName : id \in stale}
                        \ {agentStates[id].skillName : id \in survivors}
        mcpGone == {agentStates[id].mcpServer : id \in stale}
                        \ {agentStates[id].mcpServer : id \in survivors}
    IN  /\ agentStates' =
              [id \in survivors |->
                  [agentStates[id] EXCEPT !.childAgentIds =
                      SelectSeq(@, LAMBDA c : ~evictedChild(id, c))]]
        /\ activeSkills' = activeSkills \ skillsGone
        /\ activeMcpServers' = activeMcpServers \ mcpGone
        /\ sockets' =
              IF stale # {} THEN Sent(Flushed(sockets), clients, "thinking")
              ELSE Flushed(sockets)
        /\ clients' = IF stale # {} THEN Kept(sockets, clients) ELSE clients
        /\ UNCHANGED <<lastAgentCreationTime, stateFile, graphVars, viewVars, gitVars>>

\* the sweep running at the present reading of the clock
SweepStale == SweepAt(now) /\ UNCHANGED clockVars

\* saveAgentState: the roster and the active sets written to the state file
SaveAgentState ==
    /\ stateFile' = [exists |-> TRUE, savedAt |-> now, agents |-> agentStates,
                     activeSkills |-> activeSkills,
                     activeMcpServers |-> activeMcpServers]
    /\ UNCHANGED <<agentStates, lastAgentCreationTime, activeSkills, activeMcpServers,
                   clockVars, graphVars, viewVars, gitVars, wsVars>>

\* restoring by the time of the save instead of the time of the load
Restorable_AtSaveTime(agent, savedAt, t) == savedAt - agent.lastActivity < AGENT_TIMEOUT_MS

\* now - agent.lastActivity < AGENT_TIMEOUT_MS
Restorable(agent, savedAt, t) == t - agent.lastActivity < AGENT_TIMEOUT_MS

\* agent.agentRole = agent.agentRole || 'main'
RestoredAgent(agent) == [agent EXCEPT !.agentRole = IF @ = None THEN "main" ELSE @]

\* loadAgentState on the empty registry of a starting process
LoadAgentState(file, t) ==
    IF ~file.exists THEN EmptyMap
    ELSE [id \in {i \in DOMAIN file.agents : Restorable(file.agents[i], file.savedAt, t)}
            |-> RestoredAgent(file.agents[id])]

\* The process stops and starts again: memory is lost, the graph is rebuilt by the
\* constructor's scan, and the registry is loaded from the state file.
Restart ==
    /\ agentStates' = LoadAgentState(stateFile, now)
    /\ lastAgentCreationTime' = 0
    /\ activeSkills' = IF stateFile.exists THEN stateFile.activeSkills ELSE {}
    /\ activeMcpServers' = IF stateFile.exists THEN stateFile.activeMcpServers ELSE {}
    /\ nodes' = InitialNodes
    /\ clients' = {}
    /\ sockets' = EmptyMap
    /\ UNCHANGED <<stateFile, clockVars, viewVars, gitVars>>

(***************************************************************************)
(* Actions of the ActivityStore taken alone, and of the viewer.            *)
(***************************************************************************)
\* one call of wsManager.broadcast by a handler
Publish(type) ==
    /\ sockets' = Sent(Flushed(sockets), clients, type)
    /\ clients' = Kept(sockets, clients)

\* notifyChange through the onGraphChange callback, when the store calls it
NotifyChange(called) ==
    IF called THEN Publish("graph")
    ELSE sockets' = Flushed(sockets) /\ clients' = clients

\* a broadcast of the roster, when the handler makes one
NotifyRoster(called) ==
    IF called THEN Publish("thinking")
    ELSE sockets' = Flushed(sockets) /\ clients' = clients

RecordActivity(ev) ==
    /\ \A c \in Counts(AddActivity(nodes, ev)) : c <= MaxCount
    /\ nodes' = AddActivity(nodes, ev)
    /\ UNCHANGED <<regVars, clockVars, viewVars, gitVars, wsVars>>

FileAdded(path, isFolder) ==
    /\ nodes' = HandleFileAdd(nodes, path, isFolder)
    /\ NotifyChange(/\ ~OutsideProject(PathRelative(ProjectRoot, path))
                    /\ path \notin DOMAIN nodes)
    /\ UNCHANGED <<regVars, clockVars, viewVars, gitVars>>

FileRemoved(path) ==
    /\ nodes' = HandleFileRemove(nodes, path)
    /\ NotifyChange(HandleFileRemove(nodes, path) # nodes)
    /\ UNCHANGED <<regVars, clockVars, viewVars, gitVars>>

\* POST /api/clear
Clear ==
    /\ nodes' = InitialNodes
    /\ Publish("graph")
    /\ UNCHANGED <<regVars, clockVars, viewVars, gitVars>>

MaxKnown == 4

\* Map.prototype.set on the keys of filePositions: a key already there keeps its place
SetKey(known, id) == IF ListIncludes(known, id) THEN known ELSE Append(known, id)

RECURSIVE SetKeys(_, _)
SetKeys(known, ids) ==
    IF ids = <<>> THEN known ELSE SetKeys(SetKey(known, Head(ids)), Tail(ids))

\* the ids buildLayout registers for one room: a desk per recent file (one desk
\* named after the folder when there is none), then the folder itself
RoomIds(folderId, recentFiles) ==
    LET folderName == IF ExtractFilename(folderId) = <<>> THEN folderId
                      ELSE ExtractFilename(folderId)
        fileNames == IF recentFiles = <<>> THEN <<folderName>> ELSE recentFiles
    IN  [i \in 1..Len(fileNames) |-> folderId \o <<"/">> \o fileNames[i]]
            \o <<folderId>>

\* buildLayout lays out the room of one folder
LayoutRoom(folderId, recentFiles) ==
    /\ ~ListIncludes(knownFileIds, folderId)
    /\ Len(SetKeys(knownFileIds, RoomIds(folderId, recentFiles))) <= MaxKnown
    /\ knownFileIds' = SetKeys(knownFileIds, RoomIds(folderId, recentFiles))
    /\ UNCHANGED <<filePath, matchResult, roomVars, gitVars, regVars, clockVars,
                   graphVars, wsVars>>

\* the viewer handles an activity event for path
HandleActivity(path) ==
    /\ filePath' = path
    /\ matchResult' = FindMatchingFileId(path, knownFileIds)
    /\ UNCHANGED <<knownFileIds, roomVars, gitVars, regVars, clockVars, graphVars, wsVars>>

(***************************************************************************)
(* Initial states.  A process starts with an empty registry, or with the   *)
(* sessions loadAgentState restored from the state file of its predecessor.*)
(***************************************************************************)
SavedIds == {id \in BackgroundIds : BackgroundNumber(id) <= Background}

\* the saved sessions: Claude Code 1 .. Claude Code n, the second idle 1 ms longer
SavedAgents ==
    [id \in SavedIds |->
        [NewAgentState(EmptyMap, id,
                       IF id = "B2" THEN StartTime - 1 ELSE StartTime,
                       "claude", None, None, None)
            EXCEPT !.displayName =
                GenerateDisplayName("claude", BackgroundNumber(id), None, None, "main")]]

SavedFile ==
    [exists |-> TRUE, savedAt |-> StartTime, agents |-> SavedAgents,
     activeSkills |-> {}, activeMcpServers |-> {}]

\* cache.get(projectRoot) === undefined
NoEntry == [exists |-> FALSE]

\* git-activity: const cache = new Map(); nothing committed, no call running
InitGit ==
    /\ cache = NoEntry
    /\ repo = 0
    /\ calls = EmptyMap
    /\ served = None

InitRest ==
    /\ now = StartTime
    /\ ticks = 0
    /\ nodes = InitialNodes
    /\ knownFileIds = <<>>
    /\ filePath = <<>>
    /\ matchResult = Undefined
    /\ thinkingAgentsRef = {}
    /\ thinkingDirty = FALSE
    /\ agentCharactersRef = EmptyMap
    /\ InitGit
    /\ clients = {}
    /\ sockets = EmptyMap

InitFresh ==
    /\ agentStates = EmptyMap
    /\ lastAgentCreationTime = 0
    /\ activeSkills = {}
    /\ activeMcpServers = {}
    /\ stateFile = NoFile
    /\ InitRest

InitRestored ==
    /\ agentStates = LoadAgentState(SavedFile, StartTime)
    /\ lastAgentCreationTime = 0
    /\ activeSkills = SavedFile.activeSkills
    /\ activeMcpServers = SavedFile.activeMcpServers
    /\ stateFile = SavedFile
    /\ InitRest

Init == InitFresh \/ InitRestored

(***************************************************************************)
(* The events and clock steps of each specification.                       *)
(***************************************************************************)
ThinkingEvent(type, agentId, source) ==
    [type |-> type, agentId |-> agentId, source |-> source, toolName |-> None,
     agentType |-> None, agentName |-> None, parentAgentId |-> None,
     skillName |-> None, mcpServer |-> None, status |-> None]

ActivityEvent(type, path, agentId, source) ==
    [type |-> type, filePath |-> path, agentId |-> agentId, source |-> source,
     skillName |-> None, mcpServer |-> None, timestamp |-> now]

ValidIds == {"A1", "A2"}

InvalidIds == {"empty", "null", "zeros8"}

Sources == {"claude", "windsurf"}

Deltas == {1, AGENT_CREATION_COOLDOWN_MS - 1, AGENT_TIMEOUT_MS}

SearchPattern == <<"*.ts">>

ThinkingEvents ==
    {ThinkingEvent(type, id, src) :
        type \in {"thinking-start"},
        id \in ValidIds \cup InvalidIds, src \in Sources}

ActivityEvents ==
    {ActivityEvent("search-start", SearchPattern, id, src) :
        id \in ValidIds \cup InvalidIds, src \in Sources}

(***************************************************************************)
(* Spec: the registry under events, the clock and the stale sweep.         *)
(***************************************************************************)
Next ==
    \/ \E d \in Deltas : Tick(d)
    \/ \E ev \in ThinkingEvents : PostThinking(ev)
    \/ \E ev \in ActivityEvents : PostActivity(ev)
    \/ SweepStale

Spec == Init /\ [][Next]_vars

(***************************************************************************)
(* Properties of the registry, checked under Spec.                         *)
(***************************************************************************)
Size == Cardinality(DOMAIN agentStates)

AnySources == Sources \cup {"unknown"}

Ordinal(st) == ParseInt(TrailingDigits(st.displayName))

Register(id, src) ==
    RegisterAgent(agentStates, lastAgentCreationTime, now, id, src, None, None, None)

Created == DOMAIN agentStates' \ DOMAIN agentStates

\* C1: whatever register calls and stale sweeps have happened, the registry never
\* holds more than MAX_AGENTS (10) sessions.
C1_SizeWithinCap == Size <= MAX_AGENTS

\* a full registry built up by a registration, with an unregistered valid id that
\* only the cap keeps out
C1_Witness ==
    /\ Size = MAX_AGENTS
    /\ lastAgentCreationTime > 0
    /\ ValidIds \ DOMAIN agentStates # {}
    /\ now - lastAgentCreationTime >= AGENT_CREATION_COOLDOWN_MS

\* C2: a stale sweep at time now removes a session if and only if
\* now - lastActivity > AGENT_TIMEOUT_MS; a session exactly at the timeout stays.
C2_SweepRemovesExactlyStale ==
    [][SweepStale =>
        \A id \in DOMAIN agentStates :
            (id \in DOMAIN agentStates')
                <=> (now - agentStates[id].lastActivity <= AGENT_TIMEOUT_MS)]_vars

\* after a sweep: the session idle for timeout + 1 is gone, the one idle for
\* exactly the timeout is still registered
C2_Witness ==
    /\ "B2" \notin DOMAIN agentStates
    /\ "B1" \in DOMAIN agentStates
    /\ now - agentStates["B1"].lastActivity = AGENT_TIMEOUT_MS

\* C3: a newly created session of source S carries, at the end of its display
\* name, the smallest positive integer no registered session of S uses; sessions
\* of other sources do not count.
C3_SmallestUnusedOrdinal ==
    [][\A id \in Created :
        LET st == agentStates'[id]
            used == {Ordinal(agentStates[j]) :
                        j \in {k \in DOMAIN agentStates :
                                    agentStates[k].source = st.source}}
            n == Ordinal(st)
        IN  /\ n >= 1
            /\ n \notin used
            /\ \A m \in 1..(n - 1) : m \in used
            /\ EndsWith(st.displayName, <<" ">> \o NumberToString(n))]_vars

\* ordinal 2 was evicted while higher ordinals stay; the next session of the
\* source is Claude Code 2
C3_Witness ==
    /\ "B2" \notin DOMAIN agentStates
    /\ "B3" \in DOMAIN agentStates
    /\ \E id \in ValidIds \cap DOMAIN agentStates :
          /\ agentStates[id].source = "claude"
          /\ agentStates[id].displayName = Text("Claude Code") \o <<" ", "2">>

\* C4: register with an id that fails the format check ("", "null", "00000000")
\* returns no session and leaves the registry and the cooldown timestamp as
\* they were, in every reachable state.
C4_InvalidIdRejected ==
    \A id \in InvalidIds : \A src \in AnySources :
        LET r == Register(id, src)
        IN  /\ ~r.found
            /\ r.agents = agentStates
            /\ r.last = lastAgentCreationTime

\* sessions exist, and neither the cap nor the cooldown would stop a creation:
\* only the format check keeps the invalid ids out
C4_Witness ==
    /\ Size > 0
    /\ Size < MAX_AGENTS
    /\ lastAgentCreationTime > 0
    /\ now - lastAgentCreationTime >= AGENT_CREATION_COOLDOWN_MS

\* C5: register for an id already registered returns that session and changes
\* nothing, also at the hard cap and during the cooldown.
C5_RegisterIdempotent ==
    \A id \in DOMAIN agentStates : \A src \in AnySources :
        LET r == Register(id, src)
        IN  /\ r.found
            /\ ~r.created
            /\ r.agents = agentStates
            /\ r.last = lastAgentCreationTime

\* a registered session while the registry is full and the cooldown is running
C5_Witness ==
    /\ Size = MAX_AGENTS
    /\ now - lastAgentCreationTime < AGENT_CREATION_COOLDOWN_MS
    /\ ValidIds \cap DOMAIN agentStates # {}

PersistEvents == {ThinkingEvent("thinking-start", "A1", "claude")}

NextPersist ==
    \/ \E d \in Deltas : Tick(d)
    \/ \E ev \in PersistEvents : PostThinking(ev)
    \/ SweepStale
    \/ SaveAgentState
    \/ Restart

SpecPersist == Init /\ [][NextPersist]_vars

SavedIdle(id) == stateFile.savedAt - stateFile.agents[id].lastActivity

\* C7: a restart at time now restores exactly the saved sessions with
\* now - lastActivity < AGENT_TIMEOUT_MS, each as it was saved; so none that was
\* stale at the save comes back, and a saved session that reached the timeout by
\* the time of the restart is dropped even though it was within it at the save.
C7_RestoreWithinTimeoutAtRestart ==
    [][(Restart /\ stateFile.exists) =>
        /\ DOMAIN agentStates' \subseteq DOMAIN stateFile.agents
        /\ \A id \in DOMAIN stateFile.agents :
            /\ (id \in DOMAIN agentStates')
                  <=> (now - stateFile.agents[id].lastActivity < AGENT_TIMEOUT_MS)
            /\ id \in DOMAIN agentStates' => agentStates'[id] = stateFile.agents[id]
            /\ SavedIdle(id) > AGENT_TIMEOUT_MS => id \notin DOMAIN agentStates']_vars

\* C7 as stated: a restart restores exactly the saved sessions that were within
\* the timeout (not stale) when the file was written.
C7_RestoreWithinTimeoutAtSave ==
    [][(Restart /\ stateFile.exists) =>
        \A id \in DOMAIN stateFile.agents :
            (id \in DOMAIN agentStates') <=> (SavedIdle(id) <= AGENT_TIMEOUT_MS)]_vars

\* a restart at the very instant of the save: A1 is back as saved, B1, idle for
\* exactly the timeout at the save, is not
C7_Witness ==
    /\ stateFile.exists
    /\ now = stateFile.savedAt
    /\ lastAgentCreationTime = 0
    /\ "A1" \in DOMAIN agentStates
    /\ "A1" \in DOMAIN stateFile.agents
    /\ agentStates["A1"] = stateFile.agents["A1"]
    /\ "B1" \in DOMAIN stateFile.agents
    /\ SavedIdle("B1") = AGENT_TIMEOUT_MS
    /\ "B1" \notin DOMAIN agentStates

(***************************************************************************)
(* SpecGraph: the ActivityStore under file events and watcher callbacks.   *)
(***************************************************************************)
ShallowFile == Under(<<"src", "a.ts">>)

DeepFile == Under(<<"src", "lib", "util", "c.ts">>)

DotDotFile == Under(<<"..cfg">>)

OutsideFile == <<"tmp", "b.ts">>

FilePaths == {ShallowFile, DeepFile, DotDotFile, OutsideFile}

WatchedPaths == {ProjectRoot, Under(<<"src">>), ShallowFile}

FileTypes == {"read-start", "read-end", "write-start", "write-end"}

FileEvent(type, path) == ActivityEvent(type, path, None, None)

GraphEvents ==
    {FileEvent(type, path) : type \in FileTypes, path \in FilePaths}
        \cup {FileEvent("search-start", SearchPattern)}

NextGraph ==
    \/ \E ev \in GraphEvents : RecordActivity(ev)
    \/ \E path \in WatchedPaths : FileAdded(path, path # ShallowFile)
    \/ \E path \in WatchedPaths : FileRemoved(path)
    \/ Clear

SpecGraph == InitFresh /\ [][NextGraph]_vars

\* a path strictly below the project root, segment by segment
UnderRoot(path) == Len(path) > Len(ProjectRoot) /\ StartsWith(path, ProjectRoot)

Recorded(path) == ~OutsideProject(PathRelative(ProjectRoot, path))

StartOf(kind) == IF kind = "read" THEN "read-start" ELSE "write-start"

EndOf(kind) == IF kind = "read" THEN "read-end" ELSE "write-end"

CountsBefore(path) ==
    IF path \in DOMAIN nodes THEN nodes[path].activityCount
    ELSE [reads |-> 0, writes |-> 0, searches |-> 0]

\* C8 as stated: for every file path under the project root, a start followed by
\* the matching end leaves the file node with that counter one higher, the other
\* counter unchanged and no active operation, and every ancestor folder active
\* after the start and inactive after the end.
C8_StartEndCountsOnce ==
    \A path \in {q \in FilePaths : UnderRoot(q)} : \A kind \in {"read", "write"} :
        LET started == AddActivity(nodes, FileEvent(StartOf(kind), path))
            ended == AddActivity(started, FileEvent(EndOf(kind), path))
            before == CountsBefore(path)
        IN  /\ path \in DOMAIN started
            /\ path \in DOMAIN ended
            /\ started[path].activeOperation = kind
            /\ ended[path].activeOperation = None
            /\ ended[path].activityCount.writes
                  = before.writes + (IF kind = "write" THEN 1 ELSE 0)
            /\ ended[path].activityCount.reads
                  = before.reads + (IF kind = "read" THEN 1 ELSE 0)
            /\ \A a \in AncestorsOf(path) :
                  /\ a \in DOMAIN started
                  /\ started[a].activeOperation = kind
                  /\ a \in DOMAIN ended
                  /\ ended[a].activeOperation = None

NewNodes(after) == DOMAIN after \ DOMAIN nodes

\* C9: two events for one path add, at the first, the file node when it is new
\* and one folder node for each ancestor below the root that is missing, however
\* deep the path, and nothing for a path the store skips; the second adds no node.
C9_NodesCreatedOnce ==
    \A path \in FilePaths : \A t1 \in FileTypes : \A t2 \in FileTypes :
        LET once == AddActivity(nodes, FileEvent(t1, path))
            twice == AddActivity(once, FileEvent(t2, path))
        IN  /\ DOMAIN twice = DOMAIN once
            /\ DOMAIN nodes \subseteq DOMAIN once
            /\ IF Recorded(path)
               THEN /\ NewNodes(once)
                        = ({path} \cup (AncestorsOf(path) \ {ProjectRoot})) \ DOMAIN nodes
                    /\ \A k \in NewNodes(once) : once[k].isFolder <=> k # path
               ELSE NewNodes(once) = {}

\* C9 as stated: two events for a path never seen before create exactly one file
\* node and at most two folder nodes.
C9_AtMostTwoFolders ==
    \A path \in {q \in FilePaths : Recorded(q) /\ q \notin DOMAIN nodes} :
        \A t1 \in FileTypes : \A t2 \in FileTypes :
            LET twice == AddActivity(AddActivity(nodes, FileEvent(t1, path)),
                                     FileEvent(t2, path))
            IN  /\ Cardinality({k \in NewNodes(twice) : ~twice[k].isFolder}) = 1
                /\ Cardinality({k \in NewNodes(twice) : twice[k].isFolder}) <= 2

\* the deep file was recorded by a start and an end: one file node, three folders
C9_Witness ==
    /\ DeepFile \in DOMAIN nodes
    /\ ~nodes[DeepFile].isFolder
    /\ nodes[DeepFile].activityCount.reads + nodes[DeepFile].activityCount.writes >= 1
    /\ AncestorsOf(DeepFile) \subseteq DOMAIN nodes
    /\ Cardinality({k \in AncestorsOf(DeepFile) \ {ProjectRoot} : nodes[k].isFolder}) = 3

(***************************************************************************)
(* SpecViewer: the layout's file ids and the resolution of activity paths. *)
(***************************************************************************)
Slash(a, b) == a \o <<"/">> \o b

Folders == {Text("src"), Slash(Text("lib"), Text("src")), <<".">>}

FileLists == {<<>>, <<Text("a.ts")>>, <<Text("a.ts"), Text("b.ts")>>}

Queries ==
    {<<>>, Text("a.ts"), Text("src"), Slash(Text("src"), Text("a.ts")),
     Slash(Slash(Text("lib"), Text("src")), Text("a.ts")),
     <<"/">> \o Slash(Text("tmp"), Text("b.ts"))}

NextViewer ==
    \/ \E folderId \in Folders : \E recentFiles \in FileLists :
          LayoutRoom(folderId, recentFiles)
    \/ \E path \in Queries : HandleActivity(path)

SpecViewer == InitFresh /\ [][NextViewer]_vars

\* every ordering of a list, as a list
Orderings(list) ==
    {[i \in 1..Len(list) |-> list[f[i]]] :
        f \in {g \in [1..Len(list) -> 1..Len(list)] :
                    \A i, j \in 1..Len(list) : g[i] = g[j] => i = j}}

\* C10: when the queried path is one of the known ids the resolver returns that
\* id, in whatever order the known ids are listed, even behind an id that
\* matches by suffix or by file name.
C10_ExactMatchWins ==
    \A known \in Orderings(knownFileIds) :
        \A path \in Queries \cup {known[i] : i \in 1..Len(known)} :
            ListIncludes(known, path) => FindMatchingFileId(path, known) = path

\* the viewer resolved src/a.ts to itself although lib/src/a.ts, which ends
\* with /src/a.ts, comes first among the known ids
C10_Witness ==
    /\ knownFileIds # <<>>
    /\ knownFileIds[1] = Slash(Slash(Text("lib"), Text("src")), Text("a.ts"))
    /\ filePath = Slash(Text("src"), Text("a.ts"))
    /\ ListIncludes(knownFileIds, filePath)
    /\ matchResult = filePath

(***************************************************************************)
(* Further properties of the registry, checked under Spec.                 *)
(***************************************************************************)
EndsInOrdinal(st, n) == EndsWith(st.displayName, <<" ">> \o NumberToString(n))

C12_ParentPresent ==
    \A k \in DOMAIN nodes \ {ProjectRoot} : Dirname(k) \in DOMAIN nodes

(***************************************************************************)
(* SpecFamily: a session and its sub-agent, with the sweep, the periodic   *)
(* save and a restart.                                                     *)
(***************************************************************************)
\* the clock steps: one cooldown, one millisecond, one millisecond short of the timeout
FamilyDeltas == {AGENT_CREATION_COOLDOWN_MS, 1, AGENT_TIMEOUT_MS - 1}

\* a thinking event of a sub-agent naming its parent
ChildEvent(type, agentId, source, parentAgentId) ==
    [ThinkingEvent(type, agentId, source) EXCEPT !.parentAgentId = parentAgentId]

FamilyEvents ==
    {ThinkingEvent("thinking-start", "A1", "claude"),
     ChildEvent("thinking-start", "A2", "claude", "A1")}

NextFamily ==
    \/ \E d \in FamilyDeltas : Tick(d)
    \/ \E ev \in FamilyEvents : PostThinking(ev)
    \/ SweepStale
    \/ SaveAgentState
    \/ Restart

SpecFamily == InitFresh /\ [][NextFamily]_vars

\* C13 as stated: in every reachable state, every id in the childAgentIds of a
\* session is the id of a session in the registry.
C13_ChildrenRegistered ==
    \A id \in DOMAIN agentStates :
        \A i \in DOMAIN agentStates[id].childAgentIds :
            agentStates[id].childAgentIds[i] \in DOMAIN agentStates

(***************************************************************************)
(* SpecIngest: the two ingest handlers with one viewer connected: thinking *)
(* events of every type and file events, for registered, unregistered and  *)
(* invalid ids.                                                            *)
(***************************************************************************)
IngestDeltas == {AGENT_CREATION_COOLDOWN_MS, AGENT_TIMEOUT_MS + 1}

\* an agent-stop event carrying a terminal status
StopEvent(agentId, source, status) ==
    [ThinkingEvent("agent-stop", agentId, source) EXCEPT !.status = status]

IngestIds == {"A1", "null"}

ResumeEvents ==
    {ThinkingEvent(type, id, "claude") :
        type \in {"thinking-start", "thinking-end"}, id \in IngestIds}

StopEvents == {StopEvent(id, "claude", "completed") : id \in IngestIds \cup {"A2"}}

IngestFileEvents ==
    {ActivityEvent("read-start", ShallowFile, id, "claude") : id \in IngestIds}

InitIngest ==
    /\ agentStates = EmptyMap
    /\ lastAgentCreationTime = 0
    /\ activeSkills = {}
    /\ activeMcpServers = {}
    /\ stateFile = NoFile
    /\ now = StartTime
    /\ ticks = 0
    /\ nodes = InitialNodes
    /\ knownFileIds = <<>>
    /\ filePath = <<>>
    /\ matchResult = Undefined
    /\ thinkingAgentsRef = {}
    /\ thinkingDirty = FALSE
    /\ agentCharactersRef = EmptyMap
    /\ InitGit
    /\ clients = {"W1"}
    /\ sockets = ("W1" :> NewClient)

NextIngest ==
    \/ \E d \in IngestDeltas : Tick(d)
    \/ \E ev \in ResumeEvents : PostThinking(ev)
    \/ \E ev \in StopEvents : PostThinking(ev)
    \/ \E ev \in IngestFileEvents : PostActivity(ev)
    \/ SweepStale

SpecIngest == InitIngest /\ [][NextIngest]_vars

\* C14 as stated: an agent-stop for an id that is not in the registry creates no
\* session and leaves the registry, the creation timestamp and the active skill
\* and MCP sets as they were.
C14_UnknownStopIsNoOp ==
    [][\A ev \in StopEvents :
        (PostThinking(ev) /\ ev.agentId \notin DOMAIN agentStates)
            => UNCHANGED <<agentStates, lastAgentCreationTime, activeSkills,
                           activeMcpServers>>]_vars

\* registerAgent returns no session for the id of the event
NoSession(ev) == ~Register(ev.agentId, SourceOrUnknown(ev.source)).found

\* no message has been written to any socket by the handler
NothingSent == \A ws \in DOMAIN sockets' : sockets'[ws].outbox = <<>>

\* C15 as stated: when registerAgent returns no session for the agentId of an
\* event, the handler changes neither the registry nor the activity graph and
\* broadcasts nothing.
C15_RejectedEventIgnored ==
    [][/\ \A ev \in ResumeEvents \cup StopEvents :
            (PostThinking(ev) /\ NoSession(ev))
                => (UNCHANGED <<regVars, graphVars>> /\ NothingSent)
       /\ \A ev \in IngestFileEvents :
            (PostActivity(ev) /\ NoSession(ev))
                => (UNCHANGED <<regVars, graphVars>> /\ NothingSent)]_vars

(***************************************************************************)
(* SpecIds: thinking events under every kind of id.                        *)
(***************************************************************************)
AllIds == {"A1", "A2", "ZERO", "empty", "null", "undefined", "zeros8"}

IdEvents ==
    {ThinkingEvent(type, id, "claude") :
        type \in {"thinking-start", "thinking-end"}, id \in AllIds}

NextIds ==
    \/ \E d \in IngestDeltas : Tick(d)
    \/ \E ev \in IdEvents : PostThinking(ev)
    \/ SweepStale

SpecIds == InitFresh /\ [][NextIds]_vars

\* an id made of zero digits and dashes only
AllZero(id) ==
    /\ IdText(id) # <<>>
    /\ \A i \in 1..Len(IdText(id)) : IdText(id)[i] \in {"0", "-"}

\* C16 as stated: no registered session has an all-zero id, nor an empty one, nor
\* 'null' nor 'undefined'; and every id the server's validator accepts, the
\* viewer's validator accepts.
C16_NoAllZeroSession ==
    /\ \A id \in DOMAIN agentStates :
          /\ ~AllZero(id)
          /\ IdText(id) \notin {<<>>, IdText("null"), IdText("undefined")}
    /\ \A id \in AllIds : IsValidAgentId(id) => ViewerIsValidAgentId(id)

(***************************************************************************)
(* SpecHeartbeat: viewers connecting, answering pings and closing, the     *)
(* ping interval, and a handler that publishes.                            *)
(***************************************************************************)
MaxPending == 3

SocketIds == {"W1", "W2"}

\* wss.on('connection')
Connect(ws) ==
    /\ ws \notin DOMAIN sockets
    /\ sockets' = (ws :> NewClient) @@ sockets
    /\ clients' = clients \cup {ws}
    /\ UNCHANGED <<regVars, clockVars, graphVars, viewVars, gitVars>>

\* ws.on('pong')
Pong(ws) ==
    /\ ws \in DOMAIN sockets
    /\ sockets[ws].readyState = OPEN
    /\ sockets' = [sockets EXCEPT ![ws].isAlive = TRUE, ![ws].pending = 0]
    /\ UNCHANGED <<clients, regVars, clockVars, graphVars, viewVars, gitVars>>

\* the closing handshake of an open socket begins
BeginClose(ws) ==
    /\ ws \in DOMAIN sockets
    /\ sockets[ws].readyState = OPEN
    /\ sockets' = [sockets EXCEPT ![ws].readyState = CLOSING]
    /\ UNCHANGED <<clients, regVars, clockVars, graphVars, viewVars, gitVars>>

\* the socket closes, and ws.on('close') runs
CloseSocket(ws) ==
    /\ ws \in DOMAIN sockets
    /\ sockets[ws].readyState # CLOSED
    /\ sockets' = [sockets EXCEPT ![ws].readyState = CLOSED]
    /\ clients' = clients \ {ws}
    /\ UNCHANGED <<regVars, clockVars, graphVars, viewVars, gitVars>>

\* the ping interval fires
HeartbeatTick ==
    /\ \A ws \in clients : sockets[ws].pending < MaxPending
    /\ sockets' = Pinged(sockets, clients)
    /\ clients' = Alive(sockets, clients)
    /\ UNCHANGED <<regVars, clockVars, graphVars, viewVars, gitVars>>

NextHeartbeat ==
    \/ \E ws \in SocketIds : Connect(ws)
    \/ \E ws \in SocketIds : Pong(ws)
    \/ \E ws \in SocketIds : BeginClose(ws)
    \/ \E ws \in SocketIds : CloseSocket(ws)
    \/ HeartbeatTick
    \/ Clear

SpecHeartbeat == InitFresh /\ [][NextHeartbeat]_vars

\* C17: at a heartbeat tick a tracked socket is terminated and removed exactly
\* when it has not answered the ping of the previous tick; so one that answers
\* every ping before the next tick is never dropped by the heartbeat, and no
\* tracked socket is ever more than one ping behind: one that stops answering is
\* gone at the second tick after its last answer.
C17_DroppedIffUnanswered ==
    /\ [](\A ws \in clients : sockets[ws].pending <= 1)
    /\ [][HeartbeatTick =>
            \A ws \in clients :
                /\ (ws \notin clients') <=> (sockets[ws].pending >= 1)
                /\ sockets'[ws].terminated <=> (sockets[ws].pending >= 1)]_vars

\* the heartbeat has dropped W1, which left a ping unanswered, and has pinged W2
\* again
C17_Witness ==
    /\ "W1" \in DOMAIN sockets /\ "W1" \notin clients
    /\ sockets["W1"].terminated /\ sockets["W1"].pending = 1
    /\ "W2" \in clients /\ sockets["W2"].pending = 1

\* C18: the heartbeat tolerates no missed ping: a socket that has not answered a
\* ping by the next tick is terminated and removed at that tick and is sent no
\* further ping; an answer at any moment before the tick keeps it tracked.
C18_NoMissTolerated ==
    [][HeartbeatTick =>
        \A ws \in clients :
            IF sockets[ws].pending = 1
            THEN /\ ws \notin clients'
                 /\ sockets'[ws].terminated
                 /\ sockets'[ws].readyState # OPEN
                 /\ sockets'[ws].pending = 1
            ELSE /\ ws \in clients'
                 /\ sockets'[ws].pending = 1]_vars

\* C18 as stated: a socket that is open and has left a single ping unanswered
\* when the next tick fires stays tracked.
C18_OneMissTolerated ==
    [][HeartbeatTick =>
        \A ws \in clients :
            (sockets[ws].pending = 1 /\ sockets[ws].readyState = OPEN)
                => ws \in clients']_vars

\* an open socket one ping behind was terminated by the tick and has since closed
C18_Witness ==
    \E ws \in DOMAIN sockets \ clients :
        /\ sockets[ws].terminated
        /\ sockets[ws].readyState = CLOSED
        /\ sockets[ws].pending = 1
        /\ ~sockets[ws].isAlive

\* C19: a publish sends the message once to each tracked socket that is OPEN,
\* nothing to any other socket, and deletes from the tracked set exactly the
\* sockets that are CLOSED or CLOSING; no OPEN socket is deleted.
C19_PublishToOpenOnly ==
    [][Clear =>
        /\ clients' \subseteq clients
        /\ \A ws \in DOMAIN sockets :
            IF ws \in clients /\ sockets[ws].readyState = OPEN
            THEN sockets'[ws].outbox = <<"graph">> /\ ws \in clients'
            ELSE sockets'[ws].outbox = <<>> /\ ws \notin clients']_vars

\* a publish has reached the open W1 and has deleted the closing W2
C19_Witness ==
    /\ "W1" \in clients /\ sockets["W1"].outbox = <<"graph">>
    /\ "W2" \in DOMAIN sockets /\ "W2" \notin clients
    /\ sockets["W2"].readyState = CLOSING /\ ~sockets["W2"].terminated
    /\ sockets["W2"].outbox = <<>>

\* the session of the event is registered and carries a terminal status
Stopped(ev) ==
    /\ ev.agentId \in DOMAIN agentStates
    /\ agentStates[ev.agentId].status # None

\* the session of the event is registered afterwards, with no status
StatusCleared(ev) ==
    /\ ev.agentId \in DOMAIN agentStates'
    /\ agentStates'[ev.agentId].status = None

\* C20 as stated, checked under SpecIngest: an agent-stop with a status leaves
\* the session registered with that status, and the next thinking-start,
\* thinking-end or file event of a session that carries a status leaves it
\* without one.
C20_StatusClearsOnResume ==
    [][/\ \A ev \in StopEvents :
            (PostThinking(ev) /\ ev.agentId \in DOMAIN agentStates)
                => /\ DOMAIN agentStates' = DOMAIN agentStates
                   /\ agentStates'[ev.agentId].status = ev.status
       /\ \A ev \in ResumeEvents : (PostThinking(ev) /\ Stopped(ev)) => StatusCleared(ev)
       /\ \A ev \in IngestFileEvents :
            (PostActivity(ev) /\ Stopped(ev)) => StatusCleared(ev)]_vars

(***************************************************************************)
(* SpecTags: sessions that invoke skills and MCP servers, and the sweep.   *)
(***************************************************************************)
TagDeltas == {AGENT_CREATION_COOLDOWN_MS, AGENT_TIMEOUT_MS + 1}

\* a thinking event carrying a skill and an MCP server
TaggedEvent(agentId, skillName, mcpServer) ==
    [ThinkingEvent("thinking-start", agentId, "claude") EXCEPT !.skillName = skillName, !.mcpServer = mcpServer]

TagEvents ==
    {TaggedEvent("A1", skill, mcp) : skill \in {"review", "deploy"}, mcp \in {None, "github"}}
        \cup {TaggedEvent("A2", "review", None)}

NextTags ==
    \/ \E d \in TagDeltas : Tick(d)
    \/ \E ev \in TagEvents : PostThinking(ev)
    \/ SweepStale

SpecTags == InitFresh /\ [][NextTags]_vars

\* C21 as stated: after a stale sweep, every tag in the active-skill set and in
\* the active-MCP-server set is the tag of a session still registered; so both
\* sets are empty once the registry is.
C21_NoOrphanTagAfterSweep ==
    [][SweepStale =>
        /\ activeSkills' \subseteq {agentStates'[id].skillName : id \in DOMAIN agentStates'}
        /\ activeMcpServers' \subseteq
                {agentStates'[id].mcpServer : id \in DOMAIN agentStates'}]_vars

(***************************************************************************)
(* SpecRoles: sessions whose agent name and agent type arrive with later   *)
(* events, a sub-agent, and the sweep.                                     *)
(***************************************************************************)
\* a thinking event carrying an agent name, an agent type and a parent
NamedEvent(agentId, agentName, agentType, parentAgentId) ==
    [ThinkingEvent("thinking-start", agentId, "claude") EXCEPT !.agentName = agentName, !.agentType = agentType, !.parentAgentId = parentAgentId]

RoleEvents ==
    {NamedEvent("A1", name, type, None) :
        name \in {None, "reviewer", "bob"}, type \in {None, "plan", "qa"}}
        \cup {NamedEvent("A2", None, type, "A1") : type \in {None, "plan"}}

NextRoles ==
    \/ \E d \in TagDeltas : Tick(d)
    \/ \E ev \in RoleEvents : PostThinking(ev)
    \/ SweepStale

SpecRoles == InitFresh /\ [][NextRoles]_vars

\* the role determineAgentRole gives for the parent, type and name of a session
DerivedRole(st) == DetermineAgentRole(st.agentType, st.parentAgentId, st.agentName)

\* C22 as stated: after an event that supplies an agent name or an agent type
\* for a session already registered, the role of the session is the role derived
\* from its parent, type and name as they then are.
C22_RoleRederived ==
    [][\A ev \in RoleEvents :
        (/\ PostThinking(ev)
         /\ ev.agentId \in DOMAIN agentStates
         /\ (ev.agentName # None \/ ev.agentType # None))
            => agentStates'[ev.agentId].agentRole = DerivedRole(agentStates'[ev.agentId])]_vars

(***************************************************************************)
(* Active operations of the file graph, checked under SpecGraph.           *)
(***************************************************************************)
OtherKind(kind) == IF kind = "read" THEN "write" ELSE "read"

\* C23 as stated: while an operation of one kind is active on a file, the end
\* event of the other kind for that file leaves the active operation in place.
C23_OnlyMatchingEndClears ==
    \A path \in FilePaths \cap DOMAIN nodes : \A kind \in {"read", "write"} :
        nodes[path].activeOperation = kind
            => AddActivity(nodes, FileEvent(EndOf(OtherKind(kind)), path))[path].activeOperation
                  = kind

\* the node with one more read or write counted
Counted(node, kind) ==
    IF kind = "read" THEN [node EXCEPT !.activityCount.reads = @ + 1]
    ELSE [node EXCEPT !.activityCount.writes = @ + 1]

\* C26 as stated: an end event for a file node with no active operation adds
\* one to the matching counter of that node and changes nothing else in the
\* graph: no node is added, and every other node, the ancestor folders included,
\* keeps its counters and its active operation.
C26_StrayEndOnlyCounts ==
    \A path \in FilePaths \cap DOMAIN nodes : \A kind \in {"read", "write"} :
        nodes[path].activeOperation = None
            => AddActivity(nodes, FileEvent(EndOf(kind), path))
                  = [nodes EXCEPT ![path] = Counted(@, kind)]

(***************************************************************************)
(* The resolver without an exact match, checked under SpecViewer.          *)
(***************************************************************************)
\* the places of the known ids that end with a slash and the path
KeysEndingWith(known, path) ==
    {i \in 1..Len(known) : EndsWith(known[i], <<"/">> \o path)}

\* the places of the known ids whose last segment is the last segment of the path
KeysNamedLike(known, path) ==
    {i \in 1..Len(known) : ExtractFilename(known[i]) = ExtractFilename(path)}

\* the places of the known ids that are a tail of the path
KeysTailOf(known, path) ==
    {i \in 1..Len(known) : EndsWith(path, <<"/">> \o known[i])}

Earliest(places) == CHOOSE i \in places : \A j \in places : i <= j

Longest(known, places) ==
    known[CHOOSE i \in places : \A j \in places : Len(known[i]) >= Len(known[j])]

Unmatched(known, path) == path # <<>> /\ ~ListIncludes(known, path)

\* C24: when the queried path is not a known id, the resolver returns the first
\* known id, in the order of the list, that ends with a slash followed by the
\* queried path; when there is none, the first known id whose last segment is
\* the file name of the queried path; when there is none either, nothing.  A known
\* id that is a tail of the queried path has no precedence.
C24_FirstKeyEndingWithPath ==
    \A known \in Orderings(knownFileIds) : \A path \in Queries :
        Unmatched(known, path) =>
            FindMatchingFileId(path, known) =
                IF KeysEndingWith(known, path) # {}
                THEN known[Earliest(KeysEndingWith(known, path))]
                ELSE IF ExtractFilename(path) # <<>> /\ KeysNamedLike(known, path) # {}
                THEN known[Earliest(KeysNamedLike(known, path))]
                ELSE Undefined

\* C24 as stated: when the queried path is not a known id, the resolver returns
\* the longest known id that is a tail of the queried path, and only when there
\* is none a known id with the same file name, or nothing.
C24_LongestSuffixKey ==
    \A known \in Orderings(knownFileIds) : \A path \in Queries :
        Unmatched(known, path) =>
            IF KeysTailOf(known, path) # {}
            THEN FindMatchingFileId(path, known) = Longest(known, KeysTailOf(known, path))
            ELSE \/ FindMatchingFileId(path, known) = Undefined
                 \/ ExtractFilename(FindMatchingFileId(path, known)) = ExtractFilename(path)

\* lib/src/a.ts was resolved to ./a.ts, the first id named a.ts, although the
\* known id src/a.ts is a tail of it; and src/a.ts is the second id ending in /a.ts
C24_Witness ==
    /\ filePath = Slash(Slash(Text("lib"), Text("src")), Text("a.ts"))
    /\ Unmatched(knownFileIds, filePath)
    /\ ListIncludes(knownFileIds, Slash(Text("src"), Text("a.ts")))
    /\ matchResult = Slash(<<".">>, Text("a.ts"))
    /\ KeysEndingWith(knownFileIds, Text("a.ts")) = {1, 3}

(***************************************************************************)
(* SpecWaiting: one session under thinking and file events, with the       *)
(* periodic sync that infers a permission prompt.                          *)
(***************************************************************************)
WAITING_FOR_INPUT_THRESHOLD_MS == 60000

\* the test of the periodic sync on one session
AppearsWaiting(st, t) ==
    /\ st.pendingToolStart # 0
    /\ ~st.waitingForInput
    /\ t - st.pendingToolStart > WAITING_FOR_INPUT_THRESHOLD_MS

\* the periodic sync: the sessions that appear to wait are flagged, and the
\* roster is broadcast when the registry is not empty
PeriodicSyncAt(t) ==
    /\ agentStates' =
          [id \in DOMAIN agentStates |->
              IF AppearsWaiting(agentStates[id], t)
              THEN [agentStates[id] EXCEPT !.waitingForInput = TRUE]
              ELSE agentStates[id]]
    /\ NotifyRoster(agentStates # EmptyMap)
    /\ UNCHANGED <<lastAgentCreationTime, activeSkills, activeMcpServers, stateFile,
                   graphVars, viewVars, gitVars>>

\* the periodic sync running at the present reading of the clock
PeriodicSync == PeriodicSyncAt(now) /\ UNCHANGED clockVars

WaitingDeltas == {1, WAITING_FOR_INPUT_THRESHOLD_MS}

WaitingThinkingEvents ==
    {ThinkingEvent(type, "A1", "claude") : type \in {"thinking-start", "thinking-end"}}

WaitingFileEvents ==
    {ActivityEvent(type, ShallowFile, "A1", "claude") : type \in {"read-start", "read-end"}}

NextWaiting ==
    \/ \E d \in WaitingDeltas : Tick(d)
    \/ \E ev \in WaitingThinkingEvents : PostThinking(ev)
    \/ \E ev \in WaitingFileEvents : PostActivity(ev)
    \/ PeriodicSync

SpecWaiting == InitFresh /\ [][NextWaiting]_vars

\* the sessions the step has newly flagged as waiting for input
NewlyWaiting ==
    {id \in DOMAIN agentStates \cap DOMAIN agentStates' :
        agentStates'[id].waitingForInput /\ ~agentStates[id].waitingForInput}

\* C25 as stated: the periodic sync flags a session as waiting for input only
\* when the session is not thinking and its last tool end lies more than the
\* threshold in the past; it never flags a session that is thinking.
C25_FlagsOnlyIdleSessions ==
    [][PeriodicSync =>
        \A id \in NewlyWaiting :
            /\ ~agentStates[id].isThinking
            /\ agentStates[id].pendingToolStart # 0
            /\ now - agentStates[id].pendingToolStart > WAITING_FOR_INPUT_THRESHOLD_MS]_vars

\* ---------------------------------------------------------------------
\* The stale sweep on its timer: setInterval(..., 60000).  The sweep runs
\* at the instants StartTime + k * SWEEP_INTERVAL_MS; requests arrive at
\* any time in between.
\* ---------------------------------------------------------------------
SWEEP_INTERVAL_MS == 60000

MaxSweeps == 7

SinceSweep == (now - StartTime) % SWEEP_INTERVAL_MS

\* time passing between two runs of the timer
Elapse(d) == SinceSweep + d < SWEEP_INTERVAL_MS /\ Tick(d)

\* the timer fires: the clock has reached the next instant and the callback runs
TimerSweep ==
    /\ now + (SWEEP_INTERVAL_MS - SinceSweep) <= StartTime + MaxSweeps * SWEEP_INTERVAL_MS
    /\ now' = now + (SWEEP_INTERVAL_MS - SinceSweep)
    /\ ticks' = ticks
    /\ SweepAt(now')

EvictDeltas == {1, SWEEP_INTERVAL_MS - 1}

EvictStartEvents == {ThinkingEvent("thinking-start", "A1", "claude")}

EvictStopEvents == {StopEvent("A1", "claude", "completed")}

NextEvict ==
    \/ \E d \in EvictDeltas : Elapse(d)
    \/ \E ev \in EvictStartEvents \cup EvictStopEvents : PostThinking(ev)
    \/ TimerSweep

SpecEvict == InitFresh /\ [][NextEvict]_vars

Expired(st, t) == t - st.lastActivity > AGENT_TIMEOUT_MS

\* C27: eviction latency is bounded.  The sweep that runs on the timer
\* removes every session whose idle time exceeds the timeout at that
\* instant, so no registered session is ever idle for the timeout plus a
\* whole sweep interval; and an agent-stop event for a registered session
\* leaves its last-activity time alone, so it does not postpone the eviction.
C27_EvictionLatencyBounded ==
    /\ [](\A id \in DOMAIN agentStates :
            now - agentStates[id].lastActivity < AGENT_TIMEOUT_MS + SWEEP_INTERVAL_MS)
    /\ [][TimerSweep =>
            \A id \in DOMAIN agentStates :
                Expired(agentStates[id], now') => id \notin DOMAIN agentStates']_vars
    /\ [][\A ev \in EvictStopEvents :
            (PostThinking(ev) /\ ev.agentId \in DOMAIN agentStates)
                => /\ ev.agentId \in DOMAIN agentStates'
                   /\ agentStates'[ev.agentId].lastActivity
                        = agentStates[ev.agentId].lastActivity]_vars

\* a session registered one millisecond after the timer started, idle since
\* then, and gone after the sixth run of the sweep
C27_Witness ==
    /\ now = StartTime + 6 * SWEEP_INTERVAL_MS
    /\ lastAgentCreationTime = StartTime + 1
    /\ "A1" \notin DOMAIN agentStates

\* ---------------------------------------------------------------------
\* The viewer's room.  The hook stores each 'thinking' message and bumps
\* its version; the animation loop syncs the agents of the room when the
\* version has changed.  The server's two timers run at the instants
\* StartTime + k * SYNC_INTERVAL_MS and StartTime + k * SWEEP_INTERVAL_MS.
\* ---------------------------------------------------------------------
SYNC_INTERVAL_MS == 2000

AGENT_GRACE_PERIOD_MS == 30000

MAX_CLIENT_AGENTS == 10

LastEventBy == 4000

\* shouldRemoveAgent
ShouldRemoveAgent(lastSeenMs, currentTimeMs) ==
    currentTimeMs - lastSeenMs > AGENT_GRACE_PERIOD_MS

\* ws.onmessage: the messages the last handler wrote to the socket arrive; a
\* 'thinking' message carries the roster of the end of that handler, which is
\* the registry of this state, since no step between changes the registry
OnMessage(ws) ==
    /\ ws \in DOMAIN sockets
    /\ sockets[ws].outbox # <<>>
    /\ LET roster == \E i \in 1..Len(sockets[ws].outbox) : sockets[ws].outbox[i] = "thinking"
       IN  /\ thinkingAgentsRef' = IF roster THEN DOMAIN agentStates ELSE thinkingAgentsRef
           /\ thinkingDirty' = (thinkingDirty \/ roster)
    /\ sockets' = [sockets EXCEPT ![ws].outbox = <<>>]
    /\ UNCHANGED <<clients, agentCharactersRef, knownFileIds, filePath, matchResult,
                   gitVars, regVars, clockVars, graphVars>>

\* the sync, first loop: an agent of the roster is marked as seen, or added
\* when the room is not full
RECURSIVE Seen(_, _, _)
Seen(agents, ids, t) ==
    IF ids = {} THEN agents
    ELSE LET id == CHOOSE x \in ids : TRUE
             rest == ids \ {id}
         IN  IF id \in DOMAIN agents
             THEN Seen([agents EXCEPT ![id].lastSeen = t], rest, t)
             ELSE IF Cardinality(DOMAIN agents) >= MAX_CLIENT_AGENTS
             THEN Seen(agents, rest, t)
             ELSE Seen([a \in DOMAIN agents \cup {id} |->
                           IF a = id THEN [lastSeen |-> t] ELSE agents[a]], rest, t)

\* the sync, second loop: the agents not seen for more than the grace period go
Graced(agents, t) ==
    [id \in {a \in DOMAIN agents : ~ShouldRemoveAgent(agents[a].lastSeen, t)} |-> agents[id]]

\* one frame of the animation loop in which the roster version has changed
Frame ==
    /\ thinkingDirty
    /\ thinkingDirty' = FALSE
    /\ agentCharactersRef' =
          Graced(Seen(agentCharactersRef,
                      {id \in thinkingAgentsRef : IsValidAgentId(id)}, now), now)
    /\ UNCHANGED <<thinkingAgentsRef, knownFileIds, filePath, matchResult,
                   gitVars, regVars, clockVars, graphVars, wsVars>>

SinceSync == (now - StartTime) % SYNC_INTERVAL_MS

\* the stale sweep is due at this instant and has not done its work yet
SweepDue ==
    /\ now > StartTime
    /\ SinceSweep = 0
    /\ \E id \in DOMAIN agentStates : IsStale(agentStates[id], now)

\* the sync timer fires: the clock has reached its next instant
TimerSync ==
    /\ ~SweepDue
    /\ now + (SYNC_INTERVAL_MS - SinceSync) <= StartTime + MaxSweeps * SWEEP_INTERVAL_MS
    /\ now' = now + (SYNC_INTERVAL_MS - SinceSync)
    /\ ticks' = ticks
    /\ PeriodicSyncAt(now')

\* the sweep timer fires at an instant the clock has reached
SweepOnTime == SweepDue /\ SweepStale

RoomEvents == {ThinkingEvent("thinking-start", id, "claude") : id \in ValidIds}

\* the viewer has taken in everything the server sent
Quiet == ~thinkingDirty /\ \A ws \in DOMAIN sockets : sockets[ws].outbox = <<>>

InitRoom ==
    /\ agentStates = EmptyMap
    /\ lastAgentCreationTime = 0
    /\ activeSkills = {}
    /\ activeMcpServers = {}
    /\ stateFile = NoFile
    /\ now = StartTime
    /\ ticks = 0
    /\ nodes = InitialNodes
    /\ knownFileIds = <<>>
    /\ filePath = <<>>
    /\ matchResult = Undefined
    /\ clients = {"W1"}
    /\ sockets = [ws \in {"W1"} |-> NewClient]
    /\ thinkingAgentsRef = {}
    /\ thinkingDirty = TRUE
    /\ agentCharactersRef = EmptyMap
    /\ InitGit

NextRoom ==
    \/ \E ws \in clients : OnMessage(ws)
    \/ Frame
    \/ Quiet /\ TimerSync
    \/ Quiet /\ SweepOnTime
    \/ \E ev \in RoomEvents :
          /\ Quiet
          /\ now <= StartTime + LastEventBy
          /\ PostThinking(ev)

SpecRoom == InitRoom /\ [][NextRoom]_vars

\* C28: an agent the server has evicted leaves the viewer's room: an agent
\* of the room that is not in the registry was last seen in a roster no
\* longer ago than the grace period plus one interval of the periodic sync.
C28_EvictedLeavesRoom ==
    \A id \in DOMAIN agentCharactersRef :
        id \notin DOMAIN agentStates
            => now - agentCharactersRef[id].lastSeen
                  <= AGENT_GRACE_PERIOD_MS + SYNC_INTERVAL_MS

\* ---------------------------------------------------------------------
\* git-activity: getHotFolders and its cache.  The scores are a function
\* of the git log, so a result is represented by the number of commits
\* the log held when it was read.  A call that misses the cache awaits
\* its git log; other requests are handled in the meantime.
\* ---------------------------------------------------------------------
CACHE_TTL == 30000

MaxCommits == 2

CallIds == {"T1", "T2", "T3"}

GitDeltas == {1, CACHE_TTL}

\* if (cached && Date.now() - cached.timestamp < CACHE_TTL)
CacheHit(entry, t) == entry.exists /\ t - entry.timestamp < CACHE_TTL

\* getHotFolders up to its await: the cached scores are returned, or a
\* call starts that awaits the git log
GetHotFolders(c, from) ==
    IF CacheHit(cache, now)
    THEN /\ served' = [data |-> cache.data, cached |-> TRUE, from |-> from]
         /\ UNCHANGED <<cache, calls>>
    ELSE /\ c \notin DOMAIN calls
         /\ calls' = [k \in DOMAIN calls \cup {c} |->
                         IF k = c THEN [from |-> from, read |-> FALSE, data |-> 0]
                         ELSE calls[k]]
         /\ UNCHANGED <<cache, served>>

\* GET /api/hot-folders
GetApiHotFolders(c) ==
    /\ GetHotFolders(c, "get")
    /\ UNCHANGED <<repo, regVars, clockVars, graphVars, viewVars, wsVars>>

\* a commit, whose post-commit hook posts to /api/git-commit: the cache
\* entry is deleted and getHotFolders is called, which misses
PostGitCommit(c) ==
    /\ repo < MaxCommits
    /\ repo' = repo + 1
    /\ c \notin DOMAIN calls
    /\ cache' = NoEntry
    /\ calls' = [k \in DOMAIN calls \cup {c} |->
                    IF k = c THEN [from |-> "commit", read |-> FALSE, data |-> 0]
                    ELSE calls[k]]
    /\ UNCHANGED <<served, regVars, clockVars, graphVars, viewVars, wsVars>>

\* the child process of execAsync reads the log
RunGitLog(c) ==
    /\ c \in DOMAIN calls
    /\ ~calls[c].read
    /\ calls' = [calls EXCEPT ![c].read = TRUE, ![c].data = repo]
    /\ UNCHANGED <<cache, repo, served, regVars, clockVars, graphVars, viewVars, wsVars>>

\* the await returns: cache.set(projectRoot, {data: result, timestamp: Date.now()}),
\* and the caller goes on, which for /api/git-commit broadcasts 'layout-update'
Resume(c) ==
    /\ c \in DOMAIN calls
    /\ calls[c].read
    /\ cache' = [exists |-> TRUE, data |-> calls[c].data, timestamp |-> now]
    /\ served' = [data |-> calls[c].data, cached |-> FALSE, from |-> calls[c].from]
    /\ calls' = [k \in DOMAIN calls \ {c} |-> calls[k]]
    /\ IF calls[c].from = "commit" THEN Publish("layout-update")
       ELSE UNCHANGED wsVars
    /\ UNCHANGED <<repo, regVars, clockVars, graphVars, viewVars>>

NextGit ==
    \/ \E d \in GitDeltas : Tick(d)
    \/ \E c \in CallIds : GetApiHotFolders(c)
    \/ \E c \in CallIds : PostGitCommit(c)
    \/ \E c \in CallIds : RunGitLog(c)
    \/ \E c \in CallIds : Resume(c)

SpecGit == InitFresh /\ [][NextGit]_vars

\* C29: once a commit has been notified, a read of the hot folders that is
\* answered from the cache returns scores computed from a git log that
\* holds this commit.
C29_NoScoresFromBeforeCommit ==
    [][\A c \in CallIds :
        (GetApiHotFolders(c) /\ CacheHit(cache, now)) => served'.data = repo]_vars

\* ---------------------------------------------------------------------
\* Display names regenerated: two sessions of one source whose agent
\* name and agent type, the latter ending in a digit, arrive with the
\* first event or with a later one.
\* ---------------------------------------------------------------------
NameEvents ==
    {NamedEvent(id, name, type, None) :
        id \in ValidIds, name \in {None, "reviewer"}, type \in {None, "qa2"}}

NextNames ==
    \/ \E d \in TagDeltas : Tick(d)
    \/ \E ev \in NameEvents : PostThinking(ev)
    \/ SweepStale

SpecNames == InitFresh /\ [][NextNames]_vars

\* C30: no two registered sessions of one source have display names that end
\* in the same ordinal, whether the names were generated at registration or
\* regenerated when an agent name or an agent type arrived later.
C30_OrdinalsDistinct ==
    \A a, b \in DOMAIN agentStates :
        (a # b /\ agentStates[a].source = agentStates[b].source)
            => TrailingDigits(agentStates[a].displayName)
                  # TrailingDigits(agentStates[b].displayName)

\* two sessions of one source, the second with a name that arrived after its
\* registration (its role is still 'main') and a type ending in a digit
C30_Witness ==
    /\ DOMAIN agentStates = {"A1", "A2"}
    /\ agentStates["A1"].source = agentStates["A2"].source
    /\ agentStates["A2"].agentName = "reviewer"
    /\ agentStates["A2"].agentType = "qa2"
    /\ agentStates["A2"].agentRole = "main"
    /\ agentStates["A2"].displayName = <<"R", "e", "v", "i", "e", "w", "e", "r", " ", "2">>
    /\ EndsInOrdinal(agentStates["A1"], 1)

====
